---------------------------- MODULE Spec2Model ----------------------------
(***************************************************************************)
(* A model of the TripAdvisor scraping routines:                           *)
(*   search_responses.py  scrape_location_data                             *)
(*   scrape_search.py     parse_search_page, scrape_search_hotel_urls      *)
(*   scrape_reviews.py    parse_hotel_page, scrape_hotel_reviews           *)
(* One call runs at a time.  Network responses are inputs chosen when the  *)
(* response arrives; concurrent page fetches complete in any order.        *)
(* Text is a sequence of one-character strings, so that str.replace, str() *)
(* and int() are computed on characters as Python computes them.           *)
(* Python's None is the empty tuple and a present value v the tuple <<v>>. *)
(* Asserts are enabled (the interpreter's default mode).                   *)
(***************************************************************************)
EXTENDS Integers, Sequences, FiniteSets, TLC

VARIABLES
    pc,               \* position of the running call
    fn,               \* the entry point that was called
    max_pages,        \* argument max_pages / max_review_pages
    url,              \* argument url of scrape_hotel_reviews; the search URL
    page,             \* argument of a direct parse_hotel_page call
    raw_results,      \* the "results" list of the location response
    results,          \* scrape_search_hotel_urls: accumulated previews
    page_size,
    total_results,
    next_page_url,
    pages_computed,   \* total_pages as computed on line 87 / 75, before the clamp
    total_pages,
    other_page_urls,  \* follow-up URLs (other_page_urls / review_urls)
    hotel_data,       \* scrape_hotel_reviews: the record being merged
    responses,        \* responses of the gathered follow-up fetches, by task
    inflight,         \* follow-up fetches issued and not yet completed
    arrival,          \* follow-up fetches in completion order
    listed,           \* listing boxes on each completed search page, in that order
    fetches,          \* number of client.get calls issued by the call
    first_status,     \* status code of the first page response
    bad_status,       \* some page response of the call was not 200
    boxes_fetched,    \* review containers present on the pages fetched
    outcome,          \* "running", "returned" or the exception raised
    ret               \* the value returned

vars == <<pc, fn, max_pages, url, page, raw_results, results, page_size,
          total_results, next_page_url, pages_computed, total_pages,
          other_page_urls, hotel_data, responses, inflight, arrival,
          listed, fetches, first_status, bad_status, boxes_fetched, outcome, ret>>

---------------------------------------------------------------------------
\* Bounds of the model.

MaxItems == 2        \* listing boxes on a search page
MaxTotal == 4        \* largest declared "<n> properties"
MaxMaxPages == 3     \* largest max_pages argument
MaxCandidates == 3   \* candidates in a location response
MaxBoxes == 2        \* review containers on a hotel page
MaxTens == 2         \* declared reviewCount ranges over tens 0..MaxTens

None == <<>>
Some(v) == <<v>>

---------------------------------------------------------------------------
\* Text.

DigitChars == <<"0", "1", "2", "3", "4", "5", "6", "7", "8", "9">>

\* str(n) for n >= 0
RECURSIVE str(_)
str(n) ==
    IF n < 10 THEN <<DigitChars[n + 1]>>
    ELSE str(n \div 10) \o <<DigitChars[(n % 10) + 1]>>

DigitValue(c) == CHOOSE d \in 0..9 : DigitChars[d + 1] = c

\* int(s) for a non-empty string of digits
RECURSIVE int(_)
int(s) ==
    IF Len(s) = 1 THEN DigitValue(s[1])
    ELSE 10 * int(SubSeq(s, 1, Len(s) - 1)) + DigitValue(s[Len(s)])

StartsAt(s, i, pat) ==
    /\ i + Len(pat) - 1 <= Len(s)
    /\ \A k \in 1..Len(pat) : s[i + k - 1] = pat[k]

Contains(s, pat) == \E i \in 1..Len(s) : StartsAt(s, i, pat)

\* s.replace(old, new): every non-overlapping occurrence, left to right
RECURSIVE ReplaceFrom(_, _, _, _)
ReplaceFrom(s, old, new, i) ==
    IF i > Len(s) THEN <<>>
    ELSE IF StartsAt(s, i, old)
         THEN new \o ReplaceFrom(s, old, new, i + Len(old))
         ELSE <<s[i]>> \o ReplaceFrom(s, old, new, i + 1)

Replace(s, old, new) == ReplaceFrom(s, old, new, 1)

\* range(a, b) as a list
Range(a, b) == [k \in 1..(IF b > a THEN b - a ELSE 0) |-> a + k - 1]

\* len(set(xs))
Distinct(xs) == Cardinality({xs[k] : k \in 1..Len(xs)})

Origin == <<"https://www.tripadvisor.com">>

\* urljoin(base, href) for an absolute-path href; None gives base back
urljoin(base, href) == IF href = None THEN base ELSE Origin \o href[1]

---------------------------------------------------------------------------
\* search_responses.py: the location resolver.

HotelsPath == <<"/", "H", "g">>

\* a "details" payload; EmptyDetails is a present but empty (falsy) value
Details(g) == [localizedName |-> g, HOTELS_URL |-> HotelsPath]
EmptyDetails == [localizedName |-> 0]

Candidates ==
    [details : {None, Some(EmptyDetails)} \cup {Some(Details(g)) : g \in 1..2}]

RECURSIVE SeqsUpTo(_, _)
SeqsUpTo(S, n) ==
    IF n = 0 THEN {<<>>}
    ELSE LET shorter == SeqsUpTo(S, n - 1)
         IN  shorter \cup {Append(q, x) : q \in shorter, x \in S}

\* the decoded body: malformed bodies have no results path
LocationResponses ==
    {[wellformed |-> FALSE, results |-> <<>>]} \cup
    {[wellformed |-> TRUE, results |-> q] : q \in SeqsUpTo(Candidates, MaxCandidates)}

\* "if details:" of line 94
Truthy(details) == details # None /\ details[1] # EmptyDetails

\* lines 91-97: the loop over results, appending the details that are there
RECURSIVE SanitizeFrom(_, _, _)
SanitizeFrom(rs, i, acc) ==
    IF i > Len(rs) THEN acc
    ELSE LET details == rs[i].details
         IN  SanitizeFrom(rs, i + 1,
                 IF Truthy(details) THEN Append(acc, details[1]) ELSE acc)

\* the loop leaving at the first candidate without details
RECURSIVE SanitizeUntilMissing(_, _, _)
SanitizeUntilMissing(rs, i, acc) ==
    IF i > Len(rs) \/ ~Truthy(rs[i].details) THEN acc
    ELSE SanitizeUntilMissing(rs, i + 1, Append(acc, rs[i].details[1]))

sanitized_results_break(rs) == SanitizeUntilMissing(rs, 1, <<>>)
sanitized_results(rs) == SanitizeFrom(rs, 1, <<>>)

---------------------------------------------------------------------------
\* scrape_search.py: pages and their parser.

\* hrefs of the "Next page" link: none, or a path carrying an offset token
NextOffsets == (1..MaxItems) \cup {10 * MaxItems}
Hrefs ==
    {None} \cup {Some(<<"/", "H", "-", "o", "a">> \o str(k) \o <<"-", "x">>) : k \in NextOffsets}

\* a search page: boxes in location #1 (primary) and #2 (secondary), whether
\* the primary hotel-card titles carry their second text node, the
\* "<n> properties" text and the next-page href
SearchPages ==
    [status : {200, 403}, primary : 0..MaxItems, secondary : 0..MaxItems,
     titled : BOOLEAN, total : {None} \cup {Some(str(t)) : t \in 0..MaxTotal},
     next : Hrefs]

\* as a follow-up response only status and boxes are read
FollowPages ==
    [status : {200, 403}, primary : 0..MaxItems, secondary : 0..MaxItems,
     titled : BOOLEAN, total : {None}, next : {None}]

Preview(pg, k) == <<pg, k>>

\* parse_search_page: location #1, and location #2 when #1 gave nothing;
\* getall()[1] raises IndexError on a card title without a second text node
parse_search_page(p, pg) ==
    IF p.primary > 0 /\ ~p.titled THEN [err |-> "IndexError", parsed |-> <<>>]
    ELSE IF p.primary > 0
         THEN [err |-> "", parsed |-> [k \in 1..p.primary |-> Preview(pg, k)]]
         ELSE [err |-> "", parsed |-> [k \in 1..p.secondary |-> Preview(pg, k)]]

\* the division rounded down
CeilFloor(a, b) == a \div b

\* line 87 / line 75: int(math.ceil(total_results / page_size))
Ceil(a, b) == IF a % b = 0 THEN a \div b ELSE (a \div b) + 1

\* the clamp without its comparison: max_pages taken whenever it is given
ClampAlways(mp, tp) == IF mp # None /\ mp[1] # 0 THEN mp[1] ELSE tp

\* line 89 / line 78: "if max_pages and total_pages > max_pages"
Clamp(mp, tp) == IF mp # None /\ mp[1] # 0 /\ tp > mp[1] THEN mp[1] ELSE tp

\* lines 99-102
OffsetUrls(next, size, tp) ==
    [k \in 1..Len(Range(1, tp)) |->
        Replace(next, <<"o", "a">> \o str(size),
                <<"o", "a">> \o str(size * Range(1, tp)[k]))]

---------------------------------------------------------------------------
\* The calls.

Unset ==
    [outcome |-> "running", ret |-> <<>>, results |-> <<>>, page_size |-> 0,
     total_results |-> 0, next_page_url |-> <<>>, pages_computed |-> None,
     total_pages |-> 0, other_page_urls |-> <<>>]

Init ==
    /\ pc = "idle"
    /\ fn = "none"
    /\ max_pages = None
    /\ url = <<>>
    /\ page = None
    /\ raw_results = <<>>
    /\ results = <<>>
    /\ page_size = 0
    /\ total_results = 0
    /\ next_page_url = <<>>
    /\ pages_computed = None
    /\ total_pages = 0
    /\ other_page_urls = <<>>
    /\ hotel_data = [basic_data |-> None, reviews |-> <<>>]
    /\ responses = <<>>
    /\ inflight = {}
    /\ arrival = <<>>
    /\ listed = <<>>
    /\ fetches = 0
    /\ first_status = 0
    /\ bad_status = FALSE
    /\ boxes_fetched = 0
    /\ outcome = "running"
    /\ ret = <<>>

MaxPagesArgs == {None} \cup {Some(m) : m \in 0..MaxMaxPages}

searchLocals ==
    <<results, page_size, total_results, next_page_url, pages_computed,
      total_pages, other_page_urls>>
reviewLocals == <<hotel_data, responses, boxes_fetched>>
fetchState == <<inflight, arrival, listed, fetches, first_status, bad_status>>

\* scrape_location_data(query, client): lines 24-82, the request is sent
CallLocation ==
    /\ pc = "idle"
    /\ pc' = "loc_wait"
    /\ fn' = "location"
    /\ UNCHANGED <<max_pages, url, page, raw_results, searchLocals, reviewLocals,
                   fetchState, outcome, ret>>

\* lines 83-100: the response is decoded, filtered and returned
LocationReturns(resp) ==
    /\ pc = "loc_wait"
    /\ fn = "location"
    /\ pc' = "done"
    /\ raw_results' = resp.results
    /\ IF resp.wellformed
       THEN outcome' = "returned" /\ ret' = sanitized_results(resp.results)
       ELSE outcome' = "KeyError" /\ ret' = <<>>
    /\ UNCHANGED <<fn, max_pages, url, page, searchLocals, reviewLocals, fetchState>>

\* scrape_search_hotel_urls(query, max_pages): line 56, the location request
CallSearch(mp) ==
    /\ pc = "idle"
    /\ pc' = "loc_wait"
    /\ fn' = "search"
    /\ max_pages' = mp
    /\ UNCHANGED <<url, page, raw_results, searchLocals, reviewLocals, fetchState,
                   outcome, ret>>

\* lines 56-66: first location result or [] on IndexError; the first page
\* of the hotel search is requested
SearchLocated(resp) ==
    /\ pc = "loc_wait"
    /\ fn = "search"
    /\ LET found == sanitized_results(resp.results)
       IN  IF ~resp.wellformed
           THEN /\ pc' = "done" /\ outcome' = "KeyError" /\ ret' = <<>>
                /\ UNCHANGED <<url, fetches>>
           ELSE IF found = <<>>
           THEN /\ pc' = "done" /\ outcome' = "returned" /\ ret' = <<>>
                /\ UNCHANGED <<url, fetches>>
           ELSE /\ pc' = "first_wait"
                /\ url' = Origin \o found[1].HOTELS_URL
                /\ fetches' = fetches + 1
                /\ UNCHANGED <<outcome, ret>>
    /\ UNCHANGED <<fn, max_pages, page, raw_results, searchLocals, reviewLocals,
                   inflight, arrival, listed, first_status, bad_status>>

\* the status test left out
SearchBlockedNever(status) == FALSE

\* line 67: "if first_page.status_code != 200"
SearchBlocked(status) == status # 200

\* lines 67-105 on the first page p: what the locals become, the outcome
\* when the call ends here, and the follow-up URLs that are requested
search_first(p) ==
    LET r        == parse_search_page(p, 0)
        size     == Len(r.parsed)
        total    == int(p.total[1])
        next     == urljoin(url, p.next)
        computed == Ceil(total, size)
        tp       == Clamp(max_pages, computed)
        urls     == OffsetUrls(next, size, tp)
        parsed   == [Unset EXCEPT !.results = r.parsed]
        sized    == [parsed EXCEPT !.page_size = size]
        paged    == [sized EXCEPT !.total_results = total, !.next_page_url = next,
                                  !.pages_computed = Some(computed),
                                  !.total_pages = tp, !.other_page_urls = urls]
    IN  IF SearchBlocked(p.status) THEN [Unset EXCEPT !.outcome = "returned"]
        ELSE IF r.err # "" THEN [Unset EXCEPT !.outcome = r.err]
        ELSE IF size = 0 THEN [parsed EXCEPT !.outcome = "returned"]
        ELSE IF p.total = None THEN [sized EXCEPT !.outcome = "IndexError"]
        ELSE IF Distinct(urls) # Len(urls)
             THEN [paged EXCEPT !.outcome = "AssertionError"]
        ELSE IF urls = <<>>
             THEN [paged EXCEPT !.outcome = "returned", !.ret = r.parsed]
        ELSE paged

SearchFirstPage(p) ==
    /\ pc = "first_wait"
    /\ fn = "search"
    /\ LET s == search_first(p)
       IN  /\ results' = s.results
           /\ page_size' = s.page_size
           /\ total_results' = s.total_results
           /\ next_page_url' = s.next_page_url
           /\ pages_computed' = s.pages_computed
           /\ total_pages' = s.total_pages
           /\ other_page_urls' = s.other_page_urls
           /\ outcome' = s.outcome
           /\ ret' = s.ret
           /\ IF s.outcome = "running"
              THEN /\ pc' = "pages_wait"
                   /\ inflight' = 1..Len(s.other_page_urls)
                   /\ fetches' = fetches + Len(s.other_page_urls)
              ELSE /\ pc' = "done"
                   /\ UNCHANGED <<inflight, fetches>>
    /\ first_status' = p.status
    /\ bad_status' = (p.status # 200)
    /\ UNCHANGED <<fn, max_pages, url, page, raw_results, reviewLocals, arrival,
                   listed>>

\* the page's previews put in front of the accumulated ones
extend_front(xs, ys) == ys \o xs

\* line 107: results.extend(...)
extend(xs, ys) == xs \o ys

\* lines 106-111: the next completed follow-up fetch is parsed and its
\* previews appended; after the last one the results are returned
SearchPageArrives(i, p) ==
    /\ pc = "pages_wait"
    /\ fn = "search"
    /\ i \in inflight
    /\ inflight' = inflight \ {i}
    /\ arrival' = Append(arrival, i)
    /\ listed' = Append(listed, IF p.primary > 0 THEN p.primary ELSE p.secondary)
    /\ bad_status' = (bad_status \/ p.status # 200)
    /\ LET r == parse_search_page(p, i)
       IN  IF r.err # ""
           THEN /\ pc' = "done" /\ outcome' = r.err
                /\ UNCHANGED <<results, ret>>
           ELSE /\ results' = extend(results, r.parsed)
                /\ IF inflight' = {}
                   THEN pc' = "done" /\ outcome' = "returned" /\ ret' = results'
                   ELSE UNCHANGED <<pc, outcome, ret>>
    /\ UNCHANGED <<fn, max_pages, url, page, raw_results, page_size, total_results,
                   next_page_url, pages_computed, total_pages, other_page_urls,
                   reviewLocals, fetches, first_status>>

---------------------------------------------------------------------------
\* scrape_reviews.py: hotel pages and their parser.

_review_page_size == 10

TitleText == <<"t">>
TextHtml == <<"<span>", " ", "o", "k", "<br>", " ", "</span>">>
RateText == <<"5", ".", "0", " ", "o", "f", " ", "5">>
DateText == <<" ", "2", "0", "2", "4", " ">>

\* a review container: for each field, the node the selector finds, if any
Box(title, text, rate, date) ==
    [title |-> IF title THEN Some(TitleText) ELSE None,
     text  |-> IF text THEN Some(TextHtml) ELSE None,
     rate  |-> IF rate THEN Some(RateText) ELSE None,
     date  |-> IF date THEN Some(DateText) ELSE None]

Boxes == {Box(a, b, c, d) : a \in BOOLEAN, b \in BOOLEAN, c \in BOOLEAN, d \in BOOLEAN}
FullBox == Box(TRUE, TRUE, TRUE, TRUE)
NoDateBox == Box(TRUE, TRUE, TRUE, FALSE)

ReviewCounts == {_review_page_size * q + r : q \in 0..MaxTens, r \in {0, 1, 5}}

\* a hotel page: status, the reviewCount of the aggregateRating script when
\* the script is there, and the review containers in document order
HotelPage(status, agg, boxes) == [status |-> status, agg |-> agg, boxes |-> boxes]

\* pages given to parse_hotel_page directly
ParsePages ==
    {HotelPage(200, agg, boxes) :
        agg \in {None, Some(str(1))}, boxes \in SeqsUpTo(Boxes, MaxBoxes)}

FullBoxes(n) == [k \in 1..n |-> FullBox]

\* first pages of scrape_hotel_reviews
FirstHotelPages ==
    {HotelPage(status, agg, boxes) :
        status \in {200, 403},
        agg \in {None} \cup {Some(str(c)) : c \in ReviewCounts},
        boxes \in {FullBoxes(n) : n \in 0..MaxBoxes} \cup {<<NoDateBox>>}}

\* follow-up pages: good pages, a page with a review lacking its stay date,
\* and a blocked response, with or without the hotel markup in its body
FollowHotelPages ==
    {HotelPage(200, Some(str(1)), FullBoxes(n)) : n \in 0..MaxBoxes}
    \cup {HotelPage(200, Some(str(1)), <<NoDateBox>>),
          HotelPage(403, None, <<>>),
          HotelPage(403, Some(str(1)), FullBoxes(1))}

IsTag(c) == c \in {"<span>", "</span>", "<br>"}

\* re.sub(r'<[^>]+>', '', text)
RECURSIVE StripTags(_)
StripTags(t) ==
    IF t = <<>> THEN <<>>
    ELSE IF IsTag(Head(t)) THEN StripTags(Tail(t))
    ELSE <<Head(t)>> \o StripTags(Tail(t))

\* str.strip()
RECURSIVE Strip(_)
Strip(t) ==
    IF t = <<>> THEN <<>>
    ELSE IF Head(t) = " " THEN Strip(Tail(t))
    ELSE IF t[Len(t)] = " " THEN Strip(SubSeq(t, 1, Len(t) - 1))
    ELSE t

\* rate.split(".")[0]
RECURSIVE BeforeDot(_)
BeforeDot(t) ==
    IF t = <<>> \/ Head(t) = "." THEN <<>>
    ELSE <<Head(t)>> \o BeforeDot(Tail(t))

\* lines 36-56: one review container; src stands for the container's own
\* content, which differs from container to container
parse_review(b, src) ==
    IF b.text = None THEN [err |-> "TypeError", review |-> None]
    ELSE IF b.date = None THEN [err |-> "AttributeError", review |-> None]
    ELSE [err |-> "",
          review |-> Some([src |-> src,
                           title |-> b.title,
                           text |-> Some(Strip(StripTags(b.text[1]))),
                           rate |-> IF b.rate # None /\ b.rate[1] # <<>>
                                    THEN Some(BeforeDot(b.rate[1])) ELSE None,
                           tripDate |-> Some(Strip(b.date[1]))])]

\* lines 34-56: the loop over the containers, stopping at the first that raises
RECURSIVE ParseBoxesFrom(_, _, _, _)
ParseBoxesFrom(boxes, pg, k, acc) ==
    IF k > Len(boxes) THEN [err |-> "", reviews |-> acc]
    ELSE LET r == parse_review(boxes[k], <<pg, k>>)
         IN  IF r.err # "" THEN [err |-> r.err, reviews |-> acc]
             ELSE ParseBoxesFrom(boxes, pg, k + 1, Append(acc, r.review[1]))

\* parse_hotel_page: json.loads(None) raises TypeError without the script
parse_hotel_page(p, pg) ==
    IF p.agg = None
    THEN [err |-> "TypeError", basic_data |-> None, reviews |-> <<>>]
    ELSE LET r == ParseBoxesFrom(p.boxes, pg, 1, <<>>)
         IN  [err |-> r.err, basic_data |-> p.agg, reviews |-> r.reviews]

ReviewsSegment == <<"-", "R", "e", "v", "i", "e", "w", "s", "-">>

HotelUrls ==
    {Origin \o <<"/", "d", "1">> \o ReviewsSegment \o <<"n">>,
     Origin \o <<"/", "d", "1", "-", "n">>}

\* lines 82-86
ReviewUrls(u, tp) ==
    [k \in 1..Len(Range(1, tp)) |->
        Replace(u, ReviewsSegment,
                ReviewsSegment \o <<"o", "r">>
                    \o str(_review_page_size * Range(1, tp)[k]) \o <<"-">>)]

\* parse_hotel_page(result) called on its own
CallParse(p) ==
    /\ pc = "idle"
    /\ pc' = "done"
    /\ fn' = "parse"
    /\ page' = Some(p)
    /\ LET r == parse_hotel_page(p, 0)
       IN  /\ hotel_data' = [basic_data |-> r.basic_data, reviews |-> r.reviews]
           /\ outcome' = IF r.err = "" THEN "returned" ELSE r.err
           /\ ret' = IF r.err = "" THEN r.reviews ELSE <<>>
    /\ boxes_fetched' = Len(p.boxes)
    /\ UNCHANGED <<max_pages, url, raw_results, searchLocals, responses, fetchState>>

\* scrape_hotel_reviews(url, max_review_pages): line 68, the first request
CallReviews(u, mp) ==
    /\ pc = "idle"
    /\ pc' = "first_wait"
    /\ fn' = "reviews"
    /\ url' = u
    /\ max_pages' = mp
    /\ fetches' = fetches + 1
    /\ UNCHANGED <<page, raw_results, searchLocals, reviewLocals, inflight,
                   arrival, listed, first_status, bad_status, outcome, ret>>

\* lines 69-90 on the first page p
reviews_first(p) ==
    LET r        == parse_hotel_page(p, 0)
        total    == int(r.basic_data[1])
        computed == Ceil(total, _review_page_size)
        tp       == Clamp(max_pages, computed)
        urls     == ReviewUrls(url, tp)
        parsed   == [Unset EXCEPT !.results = r.reviews]
        paged    == [parsed EXCEPT !.total_results = total,
                                   !.pages_computed = Some(computed),
                                   !.total_pages = tp, !.other_page_urls = urls]
    IN  IF p.status # 200 THEN [Unset EXCEPT !.outcome = "AssertionError"]
        ELSE IF r.err # "" THEN [parsed EXCEPT !.outcome = r.err]
        ELSE IF urls = <<>>
             THEN [paged EXCEPT !.outcome = "returned", !.ret = r.reviews]
        ELSE paged

ReviewsFirstPage(p) ==
    /\ pc = "first_wait"
    /\ fn = "reviews"
    /\ LET s == reviews_first(p)
       IN  /\ hotel_data' = [basic_data |-> IF p.status = 200 THEN p.agg ELSE None,
                             reviews |-> s.results]
           /\ total_results' = s.total_results
           /\ pages_computed' = s.pages_computed
           /\ total_pages' = s.total_pages
           /\ other_page_urls' = s.other_page_urls
           /\ outcome' = s.outcome
           /\ ret' = s.ret
           /\ IF s.outcome = "running"
              THEN /\ pc' = "pages_wait"
                   /\ inflight' = 1..Len(s.other_page_urls)
                   /\ fetches' = fetches + Len(s.other_page_urls)
              ELSE /\ pc' = "done"
                   /\ UNCHANGED <<inflight, fetches>>
    /\ first_status' = p.status
    /\ bad_status' = (p.status # 200)
    /\ boxes_fetched' = Len(p.boxes)
    /\ responses' = [k \in 1..Len(other_page_urls') |-> None]
    /\ UNCHANGED <<fn, max_pages, url, page, raw_results, results, page_size,
                   next_page_url, arrival, listed>>

\* the merge taking the responses in the order in which they completed
RECURSIVE MergeArrivedFrom(_, _, _)
MergeArrivedFrom(rs, i, acc) ==
    IF i > Len(rs) THEN [err |-> "", reviews |-> acc]
    ELSE LET r == parse_hotel_page(rs[arrival'[i]], arrival'[i])
         IN  IF r.err # "" THEN [err |-> r.err, reviews |-> acc]
             ELSE MergeArrivedFrom(rs, i + 1, acc \o r.reviews)

\* lines 92-94: the gathered responses, in task order, parsed and merged;
\* the first page that does not parse ends the loop with its exception
RECURSIVE MergeFrom(_, _, _)
MergeFrom(rs, i, acc) ==
    IF i > Len(rs) THEN [err |-> "", reviews |-> acc]
    ELSE LET r == parse_hotel_page(rs[i], i)
         IN  IF r.err # "" THEN [err |-> r.err, reviews |-> acc]
             ELSE MergeFrom(rs, i + 1, acc \o r.reviews)

\* line 90: a gathered fetch completes; when it was the last one, gather
\* returns and lines 92-98 run
ReviewsPageArrives(i, p) ==
    /\ pc = "pages_wait"
    /\ fn = "reviews"
    /\ i \in inflight
    /\ inflight' = inflight \ {i}
    /\ arrival' = Append(arrival, i)
    /\ bad_status' = (bad_status \/ p.status # 200)
    /\ boxes_fetched' = boxes_fetched + Len(p.boxes)
    /\ responses' = [responses EXCEPT ![i] = Some(p)]
    /\ IF inflight' = {}
       THEN LET got == [k \in 1..Len(responses') |-> responses'[k][1]]
                m   == MergeFrom(got, 1, hotel_data.reviews)
            IN  /\ pc' = "done"
                /\ hotel_data' = [hotel_data EXCEPT !.reviews = m.reviews]
                /\ outcome' = IF m.err = "" THEN "returned" ELSE m.err
                /\ ret' = IF m.err = "" THEN m.reviews ELSE <<>>
       ELSE UNCHANGED <<pc, hotel_data, outcome, ret>>
    /\ UNCHANGED <<fn, max_pages, url, page, raw_results, searchLocals,
                   listed, fetches, first_status>>

\* the guard of each step is tested before its inputs are drawn
Next ==
    \/ CallLocation
    \/ pc = "loc_wait" /\ fn = "location" /\ \E resp \in LocationResponses : LocationReturns(resp)
    \/ pc = "idle" /\ \E mp \in MaxPagesArgs : CallSearch(mp)
    \/ pc = "loc_wait" /\ fn = "search" /\ \E resp \in LocationResponses : SearchLocated(resp)
    \/ pc = "first_wait" /\ fn = "search" /\ \E p \in SearchPages : SearchFirstPage(p)
    \/ pc = "pages_wait" /\ fn = "search" /\ \E i \in inflight, p \in FollowPages : SearchPageArrives(i, p)
    \/ pc = "idle" /\ \E p \in ParsePages : CallParse(p)
    \/ pc = "idle" /\ \E u \in HotelUrls, mp \in MaxPagesArgs : CallReviews(u, mp)
    \/ pc = "first_wait" /\ fn = "reviews" /\ \E p \in FirstHotelPages : ReviewsFirstPage(p)
    \/ pc = "pages_wait" /\ fn = "reviews" /\ \E i \in inflight, p \in FollowHotelPages : ReviewsPageArrives(i, p)

Spec == Init /\ [][Next]_vars

---------------------------------------------------------------------------
\* Properties.

Paginating == fn \in {"search", "reviews"}
Finished == pc = "done"
Given(mp) == mp # None
FirstPageItems == SelectSeq(results, LAMBDA x : x[1] = 0)

\* C1: in the search paginator, the page count computed before the max_pages
\* clamp is ceil(total_results / N), N >= 1 being the number of previews
\* parsed from the first page: the least k with k * N >= total_results; and
\* total_results = 47 with N = 10 gives 5 pages.
C1_PagesBeforeClamp ==
    /\ (fn = "search" /\ pages_computed # None) =>
          LET k == pages_computed[1]
          IN  /\ page_size = Len(FirstPageItems)
              /\ page_size >= 1
              /\ k * page_size >= total_results
              /\ (k - 1) * page_size < total_results
    /\ Ceil(47, 10) = 5

\* three results declared on a first page of two: two pages, clamped to one
C1_Witness ==
    /\ fn = "search"
    /\ page_size = 2
    /\ total_results = 3
    /\ pages_computed = Some(2)
    /\ max_pages = Some(1)
    /\ total_pages = 1

\* C2: in both paginators, a max_pages given (at least 1, as "1 base fetch
\* plus max_pages - 1 follow-ups" supposes) and smaller than the computed page
\* count makes the call issue exactly max_pages page fetches.
C2_ExactlyMaxPagesFetches ==
    (/\ Paginating
     /\ pages_computed # None
     /\ Given(max_pages)
     /\ max_pages[1] >= 1
     /\ max_pages[1] < pages_computed[1])
    => fetches = max_pages[1]

OffsetToken(n) == <<"o", "a">> \o str(n)

\* C3: in the search paginator, once the follow-up URLs are generated (for a
\* page count of at least 1) there are exactly total_pages - 1 of them,
\* pairwise distinct, the i-th containing the offset page_size * i.
C3_OffsetUrls ==
    (fn = "search" /\ pages_computed # None /\ total_pages >= 1) =>
        /\ Len(other_page_urls) = total_pages - 1
        /\ \A i, j \in 1..Len(other_page_urls) :
              i # j => other_page_urls[i] # other_page_urls[j]
        /\ \A i \in 1..Len(other_page_urls) :
              Contains(other_page_urls[i], OffsetToken(page_size * i))

\* C4 as claimed: the record returned by the review paginator holds at most
\* reviewCount reviews, reviewCount being the count the base page declares.
C4_AtMostReviewCount ==
    (fn = "reviews" /\ Finished /\ outcome = "returned") =>
        Len(hotel_data.reviews) <= total_results

\* C4 as amended: the record returned by the review paginator holds exactly
\* one review per review container of the pages fetched, and a follow-up page
\* is fetched only below the declared count (fetch number f > 1 has
\* 10 * (f - 1) < reviewCount): the length is bounded by the containers of
\* those pages, not by reviewCount.
C4_MergedFromFetchedPages ==
    (fn = "reviews" /\ Finished /\ outcome = "returned") =>
        /\ Len(hotel_data.reviews) = boxes_fetched
        /\ ret = hotel_data.reviews
        /\ fetches >= 1
        /\ fetches = 1 \/ _review_page_size * (fetches - 1) < total_results

\* three pages merged, the third off a declared count of 21
C4_Witness ==
    /\ fn = "reviews"
    /\ Finished
    /\ outcome = "returned"
    /\ fetches = 3
    /\ total_results = 21
    /\ Len(hotel_data.reviews) = 3 * MaxBoxes

OrToken(n) == ReviewsSegment \o <<"o", "r">> \o str(n) \o <<"-">>

\* C5: in the review paginator (for a declared count of at least 1 and a
\* max_pages other than 0) the page count is ceil(reviewCount / 10), clamped
\* to max_pages when given and smaller, and exactly total_pages - 1 follow-up
\* URLs are generated, the i-th carrying the offset 10 * i.
C5_ReviewPages ==
    (/\ fn = "reviews"
     /\ pages_computed # None
     /\ total_results >= 1
     /\ max_pages # Some(0))
    => LET k == pages_computed[1]
       IN  /\ k * _review_page_size >= total_results
           /\ (k - 1) * _review_page_size < total_results
           /\ total_pages = IF Given(max_pages) /\ max_pages[1] < k
                            THEN max_pages[1] ELSE k
           /\ Len(other_page_urls) = total_pages - 1
           /\ \A i \in 1..Len(other_page_urls) :
                 Contains(other_page_urls[i], OrToken(_review_page_size * i))

FirstPageBlocked == first_status # 0 /\ first_status # 200

\* C6 as claimed: a first page whose status is not 200 makes the paginator
\* fail with an error, not return a value.
C6_BlockedIsAnError ==
    (Paginating /\ FirstPageBlocked) =>
        /\ Finished
        /\ outcome \notin {"running", "returned"}

\* C6 as amended: a first page whose status is not 200 ends the call at once,
\* with that single fetch and no item: the review paginator fails with an
\* assertion error, the search paginator returns an empty list.
C6_BlockedStopsTheCall ==
    (Paginating /\ FirstPageBlocked) =>
        /\ Finished
        /\ fetches = 1
        /\ ret = <<>>
        /\ fn = "reviews" => outcome = "AssertionError"
        /\ fn = "search" => outcome = "returned"

C6_Witness ==
    /\ fn = "search"
    /\ first_status = 403
    /\ Finished
    /\ outcome = "returned"
    /\ ret = <<>>

TokenAbsent ==
    \/ fn = "search" /\ ~Contains(next_page_url, OffsetToken(page_size))
    \/ fn = "reviews" /\ ~Contains(url, ReviewsSegment)

\* C7: in either paginator a page response that is not 200, the first or a
\* follow-up, makes the call end with an error; at the least, where the base
\* URL carries its offset pattern, the call returns no dataset built from the
\* other pages.
C7_Non200Aborts ==
    (Paginating /\ Finished /\ bad_status /\ pages_computed # None /\ ~TokenAbsent) =>
        outcome # "returned" \/ ret = <<>>

\* C8: when the base URL lacks the offset pattern, the call fetches the first
\* page only and returns its items without error, whatever the page count.
C8_SinglePageWithoutToken ==
    (Paginating /\ Finished /\ pages_computed # None /\ TokenAbsent) =>
        /\ fetches = 1
        /\ outcome = "returned"
        /\ ret = IF fn = "search" THEN FirstPageItems
                 ELSE SelectSeq(hotel_data.reviews, LAMBDA r : r.src[1] = 0)

\* C9: parse_hotel_page of a page with its aggregate-rating script (and, to
\* begin with, the body text of every review) returns one review per review
\* container, each field null exactly when its node is missing from the
\* container, and never raises.
C9_NullForMissingField ==
    (/\ fn = "parse"
     /\ Finished
     /\ page[1].agg # None
     /\ \A k \in 1..Len(page[1].boxes) : page[1].boxes[k].text # None) =>
        /\ outcome = "returned"
        /\ Len(ret) = Len(page[1].boxes)
        /\ \A k \in 1..Len(ret) :
              /\ ret[k].title = None <=> page[1].boxes[k].title = None
              /\ ret[k].text = None <=> page[1].boxes[k].text = None
              /\ ret[k].rate = None <=> page[1].boxes[k].rate = None
              /\ ret[k].tripDate = None <=> page[1].boxes[k].date = None

CarriesDetails(c) == \E g \in 1..2 : c.details = Some(Details(g))
WithDetails == {i \in 1..Len(raw_results) : CarriesDetails(raw_results[i])}
\* the position in the response of the j-th candidate carrying details
NthWithDetails(j) ==
    CHOOSE i \in WithDetails : Cardinality({h \in WithDetails : h <= i}) = j

\* C10: scrape_location_data returns the details of the candidates that
\* carry details, in response order, and drops the others without failing.
C10_DetailsInOrder ==
    (fn = "location" /\ Finished) =>
        /\ raw_results # <<>> => outcome = "returned"
        /\ outcome = "returned" =>
              /\ Len(ret) = Cardinality(WithDetails)
              /\ \A j \in 1..Len(ret) : ret[j] = raw_results[NthWithDetails(j)].details[1]

\* three candidates, the middle one without details: two records come back
C10_Witness ==
    /\ fn = "location"
    /\ Finished
    /\ Len(raw_results) = 3
    /\ raw_results[2].details = None
    /\ ret = <<Details(2), Details(1)>>

ReviewsReturned == fn = "reviews" /\ Finished /\ outcome = "returned"
\* the place of follow-up fetch i in the completion order
ArrivedAt(i) == CHOOSE n \in 1..Len(arrival) : arrival[n] = i
\* C11 as claimed: the merged reviews are the base page's reviews followed by
\* the follow-up pages' reviews in the order in which the fetches completed.
C11_MergedInCompletionOrder ==
    ReviewsReturned =>
        \A a, b \in 1..Len(hotel_data.reviews) :
            LET pa == hotel_data.reviews[a].src[1]
                pb == hotel_data.reviews[b].src[1]
            IN  (a < b /\ pa # pb) =>
                    \/ pa = 0
                    \/ pb # 0 /\ ArrivedAt(pa) < ArrivedAt(pb)

\* C11 as amended: the merged reviews are the base page's reviews followed by
\* the follow-up pages' reviews in the order of the offset URLs (the order of
\* the gathered tasks), each page's reviews in document order and once,
\* whatever the order in which the fetches completed.
C11_MergedInOffsetOrder ==
    ReviewsReturned =>
        /\ \A a, b \in 1..Len(hotel_data.reviews) :
              LET ra == hotel_data.reviews[a].src
                  rb == hotel_data.reviews[b].src
              IN  a < b => \/ ra[1] < rb[1]
                           \/ ra[1] = rb[1] /\ ra[2] < rb[2]
        /\ \A k \in 1..Len(responses) :
              Cardinality({a \in 1..Len(hotel_data.reviews) :
                              hotel_data.reviews[a].src[1] = k})
                  = Len(responses[k][1].boxes)
        /\ Len(hotel_data.reviews) = boxes_fetched
        /\ {arrival[n] : n \in 1..Len(arrival)} = 1..Len(other_page_urls)

\* the second follow-up page completes first and is still merged last
C11_Witness ==
    /\ ReviewsReturned
    /\ arrival = <<2, 1>>
    /\ Len(hotel_data.reviews) = 3
    /\ hotel_data.reviews[1].src = <<0, 1>>
    /\ hotel_data.reviews[2].src = <<1, 1>>
    /\ hotel_data.reviews[3].src = <<2, 1>>

SearchReturned ==
    fn = "search" /\ Finished /\ outcome = "returned" /\ pages_computed # None
\* the previews of search page pg, n of them, in document order
Block(pg, n) == [k \in 1..n |-> <<pg, k>>]
\* the blocks of the follow-up pages that completed n-th and later
RECURSIVE BlocksFrom(_)
BlocksFrom(n) ==
    IF n > Len(arrival) THEN <<>>
    ELSE Block(arrival[n], listed[n]) \o BlocksFrom(n + 1)

\* C12: in the search paginator, whatever the order in which the follow-up
\* fetches complete, the returned sequence is the first page's previews
\* followed by one contiguous block per follow-up page, each block the page's
\* previews in document order, the blocks in the order of arrival; every
\* follow-up fetched arrives once, so each page's previews are there exactly
\* once and their number does not depend on the completion order.
C12_BlocksInArrivalOrder ==
    SearchReturned =>
        /\ ret = Block(0, page_size) \o BlocksFrom(1)
        /\ Len(arrival) = Len(other_page_urls)
        /\ {arrival[n] : n \in 1..Len(arrival)} = 1..Len(other_page_urls)
        /\ \A n \in 1..Len(arrival) :
              Cardinality({a \in 1..Len(ret) : ret[a][1] = arrival[n]}) = listed[n]
        /\ \A a, b \in 1..Len(ret) : a # b => ret[a] # ret[b]

\* the second follow-up page, of two previews, arrives before the first
C12_Witness ==
    /\ SearchReturned
    /\ arrival = <<2, 1>>
    /\ ret = <<<<0, 1>>, <<2, 1>>, <<2, 2>>, <<1, 1>>>>

=============================================================================
